---- MODULE Spec2Model ----
(***************************************************************************)
(* A model of the DotWiz dictionary wrapper (src/main.py) and of the lazy  *)
(* wrapper DotWizPlus (src/benchmarks/dotwiz_plus.py).                     *)
(*                                                                         *)
(* Python objects live in a heap: heap[a] is the object at address a.  A   *)
(* DotWiz instance is an object whose instance dictionary IS its backing   *)
(* store (__slots__ = ("__dict__",)); a DotWizPlus instance is an object   *)
(* whose instance dictionary holds the two attributes `dict` (a reference  *)
(* to a plain dict, the backing store) and `preprocess`.                   *)
(* ret is the outcome of the last operation the caller ran.                *)
(***************************************************************************)
EXTENDS Integers, Sequences, FiniteSets, TLC

VARIABLES heap, ret

vars == <<heap, ret>>

(***************************************************************************)
(* Bounds of the model.                                                    *)
(***************************************************************************)
\* the largest number of objects on the heap
MaxObj == 5
\* the largest number of keys the caller puts into one store
MaxLen == 3

(***************************************************************************)
(* Values.  A value is a tagged word: an int, None, a bool, a reference to *)
(* a heap object, a bound method of an object, or the instance dictionary  *)
(* of an object (what `o.__dict__` evaluates to).                          *)
(***************************************************************************)
IntV(n) == [t |-> "int", v |-> n]

NoneV == [t |-> "none", v |-> 0]

BoolV(b) == [t |-> "bool", v |-> IF b THEN 1 ELSE 0]

Ref(a) == [t |-> "ref", v |-> a]

Method(a) == [t |-> "method", v |-> a]

DunderDict(a) == [t |-> "__dict__", v |-> a]

\* an entry of an ordered mapping (key k, value v); a list element has k = ""
E(k, v) == [k |-> k, v |-> v]

\* a heap object: its Python type and its entries in insertion order
Obj(kind, items) == [kind |-> kind, items |-> items]

(***************************************************************************)
(* The keys the caller uses: two ordinary names, the name of a method of   *)
(* DotWiz ("get", which DotWiz.__getattr__ itself calls), and the name of  *)
(* the backing store ("__dict__", a data descriptor of the type).          *)
(***************************************************************************)
Keys == {"a", "b", "get", "__dict__"}

\* names that type(DotWiz) defines as plain (non-data-descriptor) attributes
MethodNames ==
    {"get", "keys", "items", "pop", "popitem", "setdefault", "values",
     "clear", "copy", "fromkeys", "update", "from_json", "to_dict", "to_json"}

(***************************************************************************)
(* Ordered mappings (the behaviour of the builtin dict).                   *)
(***************************************************************************)
HasKey(items, k) == \E i \in DOMAIN items : items[i].k = k

IndexOf(items, k) == CHOOSE i \in DOMAIN items : items[i].k = k

Lookup(items, k) == items[IndexOf(items, k)].v

\* dict.get(items, k, default)
DictGet(items, k, default) == IF HasKey(items, k) THEN Lookup(items, k) ELSE default

\* items[k] = v : an existing key keeps its position, a new key goes last
Put(items, k, v) ==
    IF HasKey(items, k)
    THEN [items EXCEPT ![IndexOf(items, k)] = E(k, v)]
    ELSE Append(items, E(k, v))

\* del items[k]
Remove(items, k) == SelectSeq(items, LAMBDA e : e.k # k)

RECURSIVE DictUpdate(_, _)
\* dict.update(items, other), also {**items, **other}
DictUpdate(items, other) ==
    IF other = <<>> THEN items
    ELSE DictUpdate(Put(items, Head(other).k, Head(other).v), Tail(other))

KeySet(items) == {items[i].k : i \in DOMAIN items}

(***************************************************************************)
(* The heap.                                                               *)
(***************************************************************************)
IsRef(v) == v.t = "ref"

KindOf(h, v) == IF IsRef(v) THEN h[v.v].kind ELSE v.t

ItemsOf(h, v) == h[v.v].items

\* addresses of the objects of a kind
Addrs(h, kind) == {a \in DOMAIN h : h[a].kind = kind}

\* the outcome of a call: a returned value or a raised exception, and the heap
Ok(h, v) == [st |-> "ok", exc |-> "", h |-> h, v |-> v]

Raise(h, e) == [st |-> "raise", exc |-> e, h |-> h, v |-> NoneV]

\* does `value.__dict__` succeed (instances of Python classes) or raise
\* AttributeError (int, None, dict, list, tuple)
HasDunderDict(h, v) == KindOf(h, v) \in {"DotWiz", "DotWizPlus"}

\* bool(v)
Truthy(h, v) ==
    CASE v.t = "int" -> v.v # 0
      [] v.t = "bool" -> v.v = 1
      [] v.t = "none" -> FALSE
      [] v.t = "method" -> TRUE
      [] v.t = "__dict__" -> h[v.v].items # <<>>
      [] v.t = "ref" ->
            IF h[v.v].kind \in {"dict", "list", "tuple", "DotWiz"}
            THEN h[v.v].items # <<>>
            ELSE TRUE


(***************************************************************************)
(* Attribute lookup on a DotWiz instance (object.__getattribute__, then    *)
(* DotWiz.__getattr__): a data descriptor of the type wins, then the       *)
(* instance dictionary (the backing store), then a plain attribute of the  *)
(* type (a method), and only when all of these fail DotWiz.__getattr__.    *)
(***************************************************************************)
\* DotWiz.get(self, k, default), once `self.get` has been looked up: a stored
\* key named "get" shadows the method, and calling the stored value raises
get(h, self, k, default) ==
    IF HasKey(h[self].items, "get")
    THEN Raise(h, "TypeError")
    ELSE Ok(h, DictGet(h[self].items, k, default))

\* DotWiz.__getattr__(self, item): return self.get(item, __default)
getattr_hook(h, self, item) == get(h, self, item, NoneV)

\* getattr(self, name)
DotWiz_getattr(h, self, name) ==
    IF name = "__dict__" THEN Ok(h, DunderDict(self))
    ELSE IF HasKey(h[self].items, name) THEN Ok(h, Lookup(h[self].items, name))
    ELSE IF name \in MethodNames THEN Ok(h, Method(self))
    ELSE getattr_hook(h, self, name)

\* hasattr(o, name) for a DotWiz o: TRUE, or the TypeError getattr raises
\* (hasattr swallows AttributeError only)
DotWiz_hasattr(h, self, name) ==
    LET r == DotWiz_getattr(h, self, name)
    IN  IF r.st = "raise" /\ r.exc # "AttributeError" THEN r ELSE Ok(h, BoolV(r.st = "ok"))

\* DotWiz.__getitem__(self, key); a str key never makes getattr raise the
\* TypeError of a non-str name, so a TypeError here comes from a shadowed get
getitem(h, self, key) ==
    LET r == DotWiz_getattr(h, self, key)
    IN  IF r.st = "raise" /\ r.exc = "TypeError"
        THEN IF HasKey(h[self].items, key)
             THEN Ok(h, Lookup(h[self].items, key))
             ELSE Raise(h, "KeyError")
        ELSE r

\* DotWiz.__contains__(self, item): the tuple (item, value) it returns is
\* truthy, so `item in self` is True whenever getattr returns
contains(h, self, item) ==
    LET r == DotWiz_getattr(h, self, item)
    IN  IF r.st = "ok" THEN Ok(h, BoolV(TRUE))
        ELSE IF r.exc = "AttributeError" THEN Ok(h, BoolV(FALSE))
        ELSE IF r.exc = "TypeError" THEN Ok(h, BoolV(HasKey(h[self].items, item)))
        ELSE r

\* DotWiz.__delitem__(self, key): delattr(self, key).  Deleting the data
\* descriptor __dict__ drops the whole instance dictionary
delitem(h, self, key) ==
    IF key = "__dict__" THEN Ok([h EXCEPT ![self].items = <<>>], NoneV)
    ELSE IF HasKey(h[self].items, key)
         THEN Ok([h EXCEPT ![self].items = Remove(h[self].items, key)], NoneV)
         ELSE Raise(h, "AttributeError")


(***************************************************************************)
(* Conversion of values on the way into the store.                         *)
(***************************************************************************)
\* list(self) of a DotWiz: DotWiz.__iter__ yields the (key, value) tuples of
\* the store; each tuple is a new object.  The result is the heap with the
\* tuples and the list appended, and a reference to the list
ListOfItemTuples(h, items) ==
    LET n == Len(items)
        tuples == [i \in 1..n |-> Obj("tuple", <<items[i]>>)]
        list == Obj("list", [i \in 1..n |-> E("", Ref(Len(h) + i))])
    IN  Ok((h \o tuples) \o <<list>>, Ref(Len(h) + n + 1))

\* DotWiz(value, check_lists) for a value that is itself a non-empty DotWiz,
\* conversion checking on: `for key in input_dict` iterates (key, value)
\* tuples, and input_dict[(key, value)] ends in self.__dict__[(key, value)]
DotWizFromDotWiz(h, value) == Raise(h, "KeyError")

\* [_resolve_value(e, check_lists) for e in value] for a value with a
\* __dict__: a DotWiz yields its item tuples (each resolves to itself); a
\* DotWizPlus is iterated through __getitem__(0), which raises KeyError
ResolveElements(h, value) ==
    IF KindOf(h, value) = "DotWiz"
    THEN ListOfItemTuples(h, ItemsOf(h, value))
    ELSE Raise(h, "KeyError")

\* _resolve_value(value, check_lists)
resolve_value(h, value, check_lists) ==
    IF ~HasDunderDict(h, value) THEN Ok(h, value)
    ELSE IF Truthy(h, DictGet(ItemsOf(h, value), "fromkeys", NoneV))
         THEN DotWizFromDotWiz(h, value)
         ELSE IF check_lists THEN ResolveElements(h, value) ELSE Ok(h, value)

\* _setitem_impl(self, key, value, check_lists=True); it is both
\* DotWiz.__setitem__ and DotWiz.__setattr__
setitem_impl(h, self, key, value) ==
    LET r == resolve_value(h, value, TRUE)
    IN  IF r.st = "raise" THEN r
        ELSE Ok([r.h EXCEPT ![self].items = Put(@, key, r.v)], NoneV)

RECURSIVE UpsertLoop(_, _, _, _)
\* the loop of _upsert_into_dot_wiz over the entries of input_dict
UpsertLoop(h, self, rest, check_lists) ==
    IF rest = <<>> THEN Ok(h, NoneV)
    ELSE
      LET key == Head(rest).k
          value == Head(rest).v
          hasd == HasDunderDict(h, value)
          r1 == IF hasd /\ Truthy(h, DictGet(ItemsOf(h, value), "fromkeys", NoneV))
                THEN DotWizFromDotWiz(h, value)
                ELSE Ok(h, value)
          r2 == IF r1.st = "ok" /\ check_lists /\ hasd
                   /\ Truthy(h, DictGet(ItemsOf(h, value), "append", NoneV))
                THEN ResolveElements(h, value)
                ELSE r1
      IN  IF r2.st = "raise" THEN r2
          ELSE UpsertLoop([r2.h EXCEPT ![self].items = Put(@, key, r2.v)],
                          self, Tail(rest), check_lists)

\* _upsert_into_dot_wiz(self, input_dict, _check_lists, _check_types, **kwargs),
\* which is DotWiz.__init__ and DotWiz.update; input_dict is None (isNone) or
\* a plain dict with the entries `input`
upsert_into_dot_wiz(h, self, isNone, input, check_lists, check_types, kwargs) ==
    IF kwargs = <<>> /\ (isNone \/ input = <<>>) THEN Ok(h, NoneV)
    ELSE
      LET combined_dict == IF ~isNone /\ input # <<>>
                           THEN DictUpdate(input, kwargs) ELSE kwargs
      IN  IF ~check_types
          THEN Ok([h EXCEPT ![self].items = DictUpdate(@, combined_dict)], NoneV)
          ELSE IF isNone THEN Raise(h, "TypeError")
          ELSE UpsertLoop(h, self, input, check_lists)

\* DotWiz(input_dict, _check_lists, _check_types, **kwargs): a new instance
\* with an empty instance dictionary, then __init__
NewDotWiz(h, isNone, input, check_lists, check_types, kwargs) ==
    LET self == Len(h) + 1
        r == upsert_into_dot_wiz(Append(h, Obj("DotWiz", <<>>)), self, isNone, input,
                                 check_lists, check_types, kwargs)
    IN  IF r.st = "raise" THEN Raise(h, r.exc) ELSE Ok(r.h, Ref(self))


(***************************************************************************)
(* Conversion to a plain mapping.                                          *)
(***************************************************************************)
\* k.strip("_") on the keys of the model
StripUnderscores(k) == IF k = "__dict__" THEN "dict" ELSE k

RECURSIVE to_dict(_, _, _)
RECURSIVE ToDictEach(_, _, _, _, _)

\* the values of `rest` converted one after another into acc: as the entries
\* of a dict comprehension (mapping), or as the elements of a sequence
ToDictEach(h, rest, acc, keep_snakes, mapping) ==
    IF rest = <<>> THEN [st |-> "ok", exc |-> "", h |-> h, v |-> NoneV, items |-> acc]
    ELSE
      LET r == to_dict(h, Head(rest).v, keep_snakes)
          k == IF mapping /\ ~keep_snakes
               THEN StripUnderscores(Head(rest).k) ELSE Head(rest).k
      IN  IF r.st = "raise"
          THEN [st |-> "raise", exc |-> r.exc, h |-> h, v |-> NoneV, items |-> acc]
          ELSE ToDictEach(r.h, Tail(rest),
                          IF mapping THEN Put(acc, k, r.v) ELSE Append(acc, E(k, r.v)),
                          keep_snakes, mapping)

\* DotWiz.to_dict(o, keep_snakes)
to_dict(h, o, keep_snakes) ==
    LET kind == KindOf(h, o)
        \* hasattr(o, "strip") of a DotWiz goes through DotWiz.__getattr__
        strip == IF kind = "DotWiz" THEN DotWiz_hasattr(h, o.v, "strip")
                 ELSE Ok(h, BoolV(FALSE))
    IN  IF kind \notin {"DotWiz", "dict", "list", "tuple"}
        THEN Ok(h, o)                            \* no __iter__
        ELSE IF strip.st = "raise" THEN strip
        ELSE IF Truthy(h, strip.v) THEN Ok(h, o)
        ELSE IF kind = "dict"
        \* dict(k for k in o): each key is taken as a (key, value) pair, and no
        \* key of the model is two characters long
        THEN IF ItemsOf(h, o) = <<>>
             THEN Ok(Append(h, Obj("dict", <<>>)), Ref(Len(h) + 1))
             ELSE Raise(h, "ValueError")
        ELSE LET r == ToDictEach(h, ItemsOf(h, o), <<>>, keep_snakes, kind = "DotWiz")
                 new == IF kind = "DotWiz" THEN "dict" ELSE kind
             IN  IF r.st = "raise" THEN Raise(h, r.exc)
                 ELSE Ok(Append(r.h, Obj(new, r.items)), Ref(Len(r.h) + 1))

(***************************************************************************)
(* Equality.                                                               *)
(***************************************************************************)
RECURSIVE PyEq(_, _, _)
RECURSIVE ItemsEq(_, _, _)

\* dict.__eq__ on two sets of entries: the same keys, and equal values
ItemsEq(h, xs, ys) ==
    /\ KeySet(xs) = KeySet(ys)
    /\ \A k \in KeySet(xs) : PyEq(h, Lookup(xs, k), Lookup(ys, k))

\* x == y.  DotWiz.__eq__(self, other) is self.__dict__ == other; against
\* another DotWiz the dict defers to the reflected DotWiz.__eq__
PyEq(h, x, y) ==
    LET kx == KindOf(h, x)
        ky == KindOf(h, y)
        mapping == {"dict", "DotWiz"}
    IN  IF x = y THEN TRUE
        ELSE IF {kx, ky} \subseteq {"int", "bool"} THEN x.v = y.v
        ELSE IF ~(IsRef(x) /\ IsRef(y)) THEN FALSE
        ELSE IF kx \in mapping /\ ky \in mapping /\ "DotWiz" \in {kx, ky}
        THEN ItemsEq(h, ItemsOf(h, x), ItemsOf(h, y))
        ELSE IF kx = "dict" /\ ky = "dict"
        THEN ItemsEq(h, ItemsOf(h, x), ItemsOf(h, y))
        ELSE IF kx = ky /\ kx \in {"list", "tuple"}
        THEN /\ Len(ItemsOf(h, x)) = Len(ItemsOf(h, y))
             /\ \A i \in DOMAIN ItemsOf(h, x) :
                   /\ ItemsOf(h, x)[i].k = ItemsOf(h, y)[i].k
                   /\ PyEq(h, ItemsOf(h, x)[i].v, ItemsOf(h, y)[i].v)
        ELSE FALSE

\* DotWiz.__eq__(self, other) for a plain dict other with the entries `other`
eq_dict(h, self, other) == ItemsEq(h, h[self].items, other)


(***************************************************************************)
(* The caller's data.                                                      *)
(***************************************************************************)
\* plain objects the caller built before it constructs any wrapper: a leaf
\* mapping {"a": 1} and a list [{"a": 1}, 2] holding that mapping
Literals == << Obj("dict", <<E("a", IntV(1))>>),
               Obj("list", <<E("", Ref(1)), E("", IntV(2))>>) >>

\* the entries of the plain mappings the caller passes as input_dict
InputDicts ==
    << <<>>,
       <<E("a", IntV(1))>>,
       <<E("a", Ref(1)), E("b", IntV(2))>>,
       <<E("b", Ref(2))>>,
       <<E("get", IntV(1))>>,
       <<E("__dict__", IntV(1)), E("a", IntV(2))>> >>

\* the keyword entries the caller passes
KwargDicts ==
    << <<>>,
       <<E("a", IntV(2))>>,
       <<E("b", Ref(1))>> >>

\* the values the caller writes into a DotWiz
WriteValues == {IntV(2), Ref(1)}

\* the defaults the caller passes to get
Defaults == {NoneV, IntV(2)}

(***************************************************************************)
(* The state machine: each action is one operation of the caller.          *)
(***************************************************************************)
\* the record of the last operation: what was called on which object with
\* which key and argument, whether the key was in the store before the call,
\* and how the call ended
Result(op, obj, key, arg, n, m, had, r) ==
    [op |-> op, obj |-> obj, key |-> key, arg |-> arg, n |-> n, m |-> m,
     had |-> had, st |-> r.st, exc |-> r.exc, val |-> r.v]

Init ==
    /\ heap = Literals
    /\ ret = Result("init", 0, "", NoneV, 0, 0, FALSE, Ok(Literals, NoneV))

\* d = DotWiz(input_dict, _check_lists, _check_types, **kwargs), the one
\* wrapper of the run; i = 0 passes no input_dict
Construct(i, j, check_lists, check_types) ==
    LET r == NewDotWiz(heap, i = 0, IF i = 0 THEN <<>> ELSE InputDicts[i],
                       check_lists, check_types, KwargDicts[j])
    IN  /\ Addrs(heap, "DotWiz") = {}
        /\ Len(r.h) <= MaxObj
        /\ heap' = r.h
        /\ ret' = Result(IF check_types
                         THEN (IF check_lists THEN "construct" ELSE "construct_nolists")
                         ELSE "construct_verbatim",
                         IF r.st = "ok" THEN r.v.v ELSE 0, "", NoneV, i, j, FALSE, r)

\* d[key] = value, d.key = value
SetItem(self, key, value) ==
    LET r == setitem_impl(heap, self, key, value)
    IN  /\ HasKey(heap[self].items, key) \/ Len(heap[self].items) < MaxLen
        /\ Len(r.h) <= MaxObj
        /\ heap' = r.h
        /\ ret' = Result("setitem", self, key, value, 0, 0, HasKey(heap[self].items, key), r)

\* del d[key]
DelItem(self, key) ==
    LET r == delitem(heap, self, key)
    IN  /\ heap' = r.h
        /\ ret' = Result("delitem", self, key, NoneV, 0, 0, HasKey(heap[self].items, key), r)

\* d.key
GetAttr(self, key) ==
    /\ ret' = Result("getattr", self, key, NoneV, 0, 0, HasKey(heap[self].items, key),
                     DotWiz_getattr(heap, self, key))
    /\ UNCHANGED heap

\* d[key]
GetItem(self, key) ==
    /\ ret' = Result("getitem", self, key, NoneV, 0, 0, HasKey(heap[self].items, key),
                     getitem(heap, self, key))
    /\ UNCHANGED heap

\* d.get(key, default): `d.get` is looked up like any attribute
Get(self, key, default) ==
    /\ ret' = Result("get", self, key, default, 0, 0, HasKey(heap[self].items, key),
                     get(heap, self, key, default))
    /\ UNCHANGED heap

\* key in d
Contains(self, key) ==
    /\ ret' = Result("contains", self, key, NoneV, 0, 0, HasKey(heap[self].items, key),
                     contains(heap, self, key))
    /\ UNCHANGED heap

\* DotWiz.to_dict(d)
ToDict(self) ==
    LET r == to_dict(heap, Ref(self), TRUE)
    IN  /\ Len(r.h) <= MaxObj
        /\ heap' = r.h
        /\ ret' = Result("to_dict", self, "", NoneV, 0, 0, FALSE, r)

\* DotWiz.to_dict(DotWiz(m)) == m for the plain mapping m = InputDicts[i];
\* the temporaries of the expression are dropped
RoundTrip(i) ==
    LET m == InputDicts[i]
        r1 == NewDotWiz(heap, FALSE, m, TRUE, TRUE, <<>>)
        r2 == IF r1.st = "raise" THEN r1 ELSE to_dict(r1.h, r1.v, TRUE)
        r3 == IF r2.st = "raise" THEN Raise(heap, r2.exc)
              ELSE Ok(heap, BoolV(IF KindOf(r2.h, r2.v) = "DotWiz"
                                  THEN eq_dict(r2.h, r2.v.v, m)
                                  ELSE /\ KindOf(r2.h, r2.v) = "dict"
                                       /\ ItemsEq(r2.h, ItemsOf(r2.h, r2.v), m)))
    IN  /\ Addrs(heap, "DotWiz") = {}
        /\ ret' = Result("roundtrip", 0, "", NoneV, i, 0, FALSE, r3)
        /\ UNCHANGED heap

Next ==
    \/ \E i \in 0..Len(InputDicts), j \in DOMAIN KwargDicts, cl, ct \in BOOLEAN :
          Construct(i, j, cl, ct)
    \/ \E self \in Addrs(heap, "DotWiz"), key \in Keys, value \in WriteValues :
          SetItem(self, key, value)
    \/ \E self \in Addrs(heap, "DotWiz"), key \in Keys : DelItem(self, key)
    \/ \E self \in Addrs(heap, "DotWiz"), key \in Keys : GetAttr(self, key)
    \/ \E self \in Addrs(heap, "DotWiz"), key \in Keys : GetItem(self, key)
    \/ \E self \in Addrs(heap, "DotWiz"), key \in Keys, default \in Defaults :
          Get(self, key, default)
    \/ \E self \in Addrs(heap, "DotWiz"), key \in Keys : Contains(self, key)
    \/ \E self \in Addrs(heap, "DotWiz") : ToDict(self)
    \/ \E i \in DOMAIN InputDicts : RoundTrip(i)

Spec == Init /\ [][Next]_vars


(***************************************************************************)
(* DotWizPlus, the wrapper that converts nested mappings lazily.           *)
(***************************************************************************)
\* the names the caller uses on a DotWizPlus: an ordinary name, and the name
\* of the instance attribute that holds the backing store
PlusNames == {"a", "dict"}

\* names that type(DotWizPlus) defines as plain attributes
PlusMethodNames == {"_preprocess", "to_dict"}

\* self.dict, the value of the instance attribute
PlusDict(h, self) == Lookup(h[self].items, "dict")

\* self.preprocess
PlusPreprocess(h, self) == Lookup(h[self].items, "preprocess")

RECURSIVE NewDotWizPlus(_, _, _, _)
RECURSIVE PreprocessLoop(_, _, _)

\* the loop of DotWizPlus._preprocess(d) from the i-th entry of d on
PreprocessLoop(h, d, i) ==
    IF i > Len(h[d].items) THEN Ok(h, Ref(d))
    ELSE
      LET e == h[d].items[i]
      IN  IF KindOf(h, e.v) = "dict"
          THEN LET r == NewDotWizPlus(h, e.v, TRUE, <<>>)
               IN  PreprocessLoop([r.h EXCEPT ![d].items[i] = E(e.k, r.v)], d, i + 1)
          ELSE PreprocessLoop(h, d, i + 1)

\* DotWizPlus(input_dict, preprocess, **kwargs): a new instance, then __init__
NewDotWizPlus(h, input_dict, preprocess, kwargs) ==
    LET self == Len(h) + 1
        \* self.dict = input_dict or {}
        fresh == ~Truthy(h, input_dict)
        d == IF fresh THEN self + 1 ELSE input_dict.v
        h1 == IF fresh THEN (h \o <<Obj("DotWizPlus", <<>>)>>) \o <<Obj("dict", <<>>)>>
              ELSE Append(h, Obj("DotWizPlus", <<>>))
        \* self.dict.update(kwargs); self.preprocess = preprocess
        h2 == [h1 EXCEPT ![d].items = DictUpdate(@, kwargs),
                         ![self].items = <<E("dict", Ref(d)), E("preprocess", BoolV(preprocess))>>]
        \* if preprocess: self.dict = self._preprocess(self.dict)
        r == IF preprocess THEN PreprocessLoop(h2, d, 1) ELSE Ok(h2, Ref(d))
    IN  Ok(r.h, Ref(self))

\* DotWizPlus.__getattr__ without `self.dict[name] = value`: the converted
\* wrapper is returned and not stored back
Plus_getattr_hook_NoStore(h, self, name) ==
    LET d == PlusDict(h, self)
    IN  IF KindOf(h, d) # "dict" THEN Raise(h, "TypeError")
        ELSE IF ~HasKey(ItemsOf(h, d), name) THEN Raise(h, "AttributeError")
        ELSE
          LET value == Lookup(ItemsOf(h, d), name)
          IN  IF KindOf(h, value) = "dict" /\ ~Truthy(h, PlusPreprocess(h, self))
              THEN NewDotWizPlus(h, value, FALSE, <<>>)
              ELSE Ok(h, value)

\* DotWizPlus.__getattr__(self, name), reached when the ordinary lookup fails
Plus_getattr_hook(h, self, name) ==
    LET d == PlusDict(h, self)
    IN  IF KindOf(h, d) # "dict" THEN Raise(h, "TypeError")      \* name in self.dict
        ELSE IF ~HasKey(ItemsOf(h, d), name) THEN Raise(h, "AttributeError")
        ELSE
          LET value == Lookup(ItemsOf(h, d), name)
          IN  IF KindOf(h, value) = "dict" /\ ~Truthy(h, PlusPreprocess(h, self))
              THEN LET r == NewDotWizPlus(h, value, FALSE, <<>>)
                   IN  Ok([r.h EXCEPT ![d.v].items = Put(@, name, r.v)], r.v)
              ELSE Ok(h, value)

\* getattr(self, name) on a DotWizPlus: the instance attributes dict and
\* preprocess and the methods of the type are found before __getattr__
Plus_getattr(h, self, name) ==
    IF HasKey(h[self].items, name) THEN Ok(h, Lookup(h[self].items, name))
    ELSE IF name \in PlusMethodNames THEN Ok(h, Method(self))
    ELSE Plus_getattr_hook(h, self, name)

\* DotWizPlus.__getitem__(self, key): self.dict[key]
Plus_getitem(h, self, key) ==
    LET d == PlusDict(h, self)
    IN  IF KindOf(h, d) # "dict" THEN Raise(h, "TypeError")
        ELSE IF HasKey(ItemsOf(h, d), key) THEN Ok(h, Lookup(ItemsOf(h, d), key))
        ELSE Raise(h, "KeyError")

\* DotWizPlus.__setitem__(self, key, value): self.dict[key] = value
Plus_setitem(h, self, key, value) ==
    LET d == PlusDict(h, self)
    IN  IF KindOf(h, d) # "dict" THEN Raise(h, "TypeError")
        ELSE Ok([h EXCEPT ![d.v].items = Put(@, key, value)], NoneV)

\* DotWizPlus.__setattr__(self, name, value)
Plus_setattr(h, self, name, value) ==
    IF name \in {"dict", "preprocess"}
    THEN Ok([h EXCEPT ![self].items = Put(@, name, value)], NoneV)
    ELSE Plus_setitem(h, self, name, value)


(***************************************************************************)
(* The state machine of a caller of DotWizPlus.                            *)
(***************************************************************************)
\* plain mappings the caller built: a leaf {"a": 1}, and a mapping that
\* holds the leaf under an ordinary key and under the key "dict"
PlusLiterals == << Obj("dict", <<E("a", IntV(1))>>),
                   Obj("dict", <<E("a", Ref(1)), E("dict", Ref(1))>>) >>

\* what the caller passes as input_dict: nothing, or one of its mappings
PlusInputs == {NoneV, Ref(1), Ref(2)}

PlusKwargDicts == << <<>>, <<E("a", IntV(0))>> >>

\* the values the caller writes through a DotWizPlus
PlusWriteValues == {IntV(0), Ref(1)}

\* the entries of the backing store of a DotWizPlus (none when self.dict is
\* no dict)
PlusItems(h, self) ==
    IF KindOf(h, PlusDict(h, self)) = "dict" THEN ItemsOf(h, PlusDict(h, self)) ELSE <<>>

\* what a read of `key` finds in the store: 1 a raw mapping, 2 a DotWizPlus,
\* 0 anything else or nothing
Stored(h, self, key) ==
    IF ~HasKey(PlusItems(h, self), key) THEN 0
    ELSE IF KindOf(h, Lookup(PlusItems(h, self), key)) = "dict" THEN 1
    ELSE IF KindOf(h, Lookup(PlusItems(h, self), key)) = "DotWizPlus" THEN 2
    ELSE 0

\* is the instance in lazy mode (1) or not (0)
Lazy(h, self) == IF Truthy(h, PlusPreprocess(h, self)) THEN 0 ELSE 1

PlusResult(op, self, key, arg, r) ==
    Result(op, self, key, arg, Stored(heap, self, key), Lazy(heap, self),
           HasKey(PlusItems(heap, self), key), r)

InitPlus ==
    /\ heap = PlusLiterals
    /\ ret = Result("init", 0, "", NoneV, 0, 0, FALSE, Ok(PlusLiterals, NoneV))

\* p = DotWizPlus(input_dict, preprocess, **kwargs), the one wrapper the
\* caller itself constructs
PlusConstruct(input_dict, preprocess, j) ==
    LET r == NewDotWizPlus(heap, input_dict, preprocess, PlusKwargDicts[j])
    IN  /\ Addrs(heap, "DotWizPlus") = {}
        /\ Len(r.h) <= MaxObj
        /\ heap' = r.h
        /\ ret' = Result("plus_construct", r.v.v, "", input_dict, 0,
                         IF preprocess THEN 0 ELSE 1, FALSE, r)

\* p.name
PlusGetAttr(self, name) ==
    LET r == Plus_getattr(heap, self, name)
    IN  /\ Len(r.h) <= MaxObj
        /\ heap' = r.h
        /\ ret' = PlusResult("plus_getattr", self, name, NoneV, r)

\* p[key]
PlusGetItem(self, key) ==
    /\ ret' = PlusResult("plus_getitem", self, key, NoneV, Plus_getitem(heap, self, key))
    /\ UNCHANGED heap

\* p.name = value
PlusSetAttr(self, name, value) ==
    LET r == Plus_setattr(heap, self, name, value)
    IN  /\ heap' = r.h
        /\ ret' = PlusResult("plus_setattr", self, name, value, r)

\* p[key] = value
PlusSetItem(self, key, value) ==
    LET r == Plus_setitem(heap, self, key, value)
    IN  /\ heap' = r.h
        /\ ret' = PlusResult("plus_setitem", self, key, value, r)

\* the wrapper the caller constructed (nested wrappers are created after it)
Top(h) == CHOOSE a \in Addrs(h, "DotWizPlus") : \A b \in Addrs(h, "DotWizPlus") : a <= b

NextPlus ==
    \/ \E input_dict \in PlusInputs, preprocess \in BOOLEAN, j \in DOMAIN PlusKwargDicts :
          PlusConstruct(input_dict, preprocess, j)
    \/ \E self \in Addrs(heap, "DotWizPlus"), name \in PlusNames : PlusGetAttr(self, name)
    \/ \E self \in Addrs(heap, "DotWizPlus"), key \in PlusNames : PlusGetItem(self, key)
    \/ \E name \in PlusNames, value \in PlusWriteValues :
          Addrs(heap, "DotWizPlus") # {} /\ PlusSetAttr(Top(heap), name, value)
    \/ \E key \in PlusNames, value \in PlusWriteValues :
          Addrs(heap, "DotWizPlus") # {} /\ PlusSetItem(Top(heap), key, value)

SpecPlus == InitPlus /\ [][NextPlus]_vars


(***************************************************************************)
(* The operators of DotWiz between two mappings: merge, in-place merge,    *)
(* iteration, comparison, setdefault.  The caller owns some plain dicts    *)
(* and wraps them; the operations run on the wrappers and the dicts.       *)
(***************************************************************************)
\* the largest number of objects on the heap of this part
MaxOpsObj == 7

\* __other_dict of _merge_impl and _ior_impl:
\* getattr(other, "__dict__", None) or
\*     {k: _resolve_value(other[k], DotWiz, check_lists) for k in other}
\* A DotWiz with entries gives its own store.  An empty DotWiz and an empty
\* dict give the empty comprehension.  A dict with entries reaches the call
\* of _resolve_value with three positional arguments, which takes two
other_dict(h, other) ==
    IF KindOf(h, other) = "DotWiz" /\ ItemsOf(h, other) # <<>>
    THEN [st |-> "ok", exc |-> "", items |-> ItemsOf(h, other)]
    ELSE IF ItemsOf(h, other) = <<>>
    THEN [st |-> "ok", exc |-> "", items |-> <<>>]
    ELSE [st |-> "raise", exc |-> "TypeError", items |-> <<>>]

\* _merge_impl(self, other) with op = dict.__or__, which is DotWiz.__or__
merge_impl(h, self, other) ==
    LET o == other_dict(h, other)
    IN  IF o.st = "raise" THEN Raise(h, o.exc)
        ELSE NewDotWiz(h, FALSE, DictUpdate(h[self].items, o.items), TRUE, FALSE, <<>>)

\* _ior_impl(self, other), which is DotWiz.__ior__
ior_impl(h, self, other) ==
    LET o == other_dict(h, other)
    IN  IF o.st = "raise" THEN Raise(h, o.exc)
        ELSE Ok([h EXCEPT ![self].items = DictUpdate(@, o.items)], Ref(self))

\* the plain dicts the caller owns: {"a": 1}, {"a": 2, "b": 3}, {} and
\* {"k": {"a": 1}}
OpsLiterals == << Obj("dict", <<E("a", IntV(1))>>),
                  Obj("dict", <<E("a", IntV(2)), E("b", IntV(3))>>),
                  Obj("dict", <<>>),
                  Obj("dict", <<E("k", Ref(1))>>) >>

\* the mappings an operation takes as its right operand
Mappings(h) == Addrs(h, "dict") \cup Addrs(h, "DotWiz")

\* the record of the last operation, with the items an iteration yielded
OpsResult(op, obj, arg, r, seq) ==
    [seq |-> seq] @@ Result(op, obj, "", arg, 0, 0, FALSE, r)

InitOps ==
    /\ heap = OpsLiterals
    /\ ret = OpsResult("init", 0, NoneV, Ok(OpsLiterals, NoneV), <<>>)

\* d = DotWiz(m) for a plain dict m of the caller
OpsConstruct(m) ==
    LET r == NewDotWiz(heap, FALSE, heap[m].items, TRUE, TRUE, <<>>)
    IN  /\ Len(r.h) <= MaxOpsObj
        /\ heap' = r.h
        /\ ret' = OpsResult("construct", IF r.st = "ok" THEN r.v.v ELSE 0, Ref(m), r, <<>>)

\* a | b
Or(self, other) ==
    LET r == merge_impl(heap, self, Ref(other))
    IN  /\ Len(r.h) <= MaxOpsObj
        /\ heap' = r.h
        /\ ret' = OpsResult("or", self, Ref(other), r, <<>>)

RECURSIVE Within(_, _, _)
\* the object at address a is the value v or inside it, at any depth
Within(h, v, a) ==
    /\ IsRef(v)
    /\ \/ v.v = a
       \/ \E i \in DOMAIN ItemsOf(h, v) : Within(h, ItemsOf(h, v)[i].v, a)

\* a |= b; the caller builds no mapping that contains itself
IOr(self, other) ==
    LET r == ior_impl(heap, self, Ref(other))
    IN  /\ \A i \in DOMAIN heap[other].items : ~Within(heap, heap[other].items[i].v, self)
        /\ heap' = r.h
        /\ ret' = OpsResult("ior", self, Ref(other), r, <<>>)

\* an item an iteration yields: the tuple (k, v), or the bare key k
Pair(k, v) == [pair |-> TRUE, k |-> k, v |-> v]

BareKey(k) == [pair |-> FALSE, k |-> k, v |-> NoneV]

\* DotWiz.__iter__(self): iter(self.__dict__.items())
iter_impl(h, self) ==
    [i \in DOMAIN h[self].items |-> Pair(h[self].items[i].k, h[self].items[i].v)]

\* _reversed_impl(self), which is DotWiz.__reversed__: reversed(self.__dict__)
reversed_impl(h, self) ==
    LET n == Len(h[self].items)
    IN  [i \in 1..n |-> BareKey(h[self].items[n + 1 - i].k)]

\* list(d)
Iter(self) ==
    /\ ret' = OpsResult("iter", self, NoneV, Ok(heap, NoneV), iter_impl(heap, self))
    /\ UNCHANGED heap

\* list(reversed(d))
Reversed(self) ==
    /\ ret' = OpsResult("reversed", self, NoneV, Ok(heap, NoneV), reversed_impl(heap, self))
    /\ UNCHANGED heap

\* d = DotWiz({"k": n}) for a DotWiz n the caller holds: the caller nests one
\* wrapper in another
OpsNest(n) ==
    LET r == NewDotWiz(heap, FALSE, <<E("k", Ref(n))>>, TRUE, TRUE, <<>>)
    IN  /\ Len(r.h) <= MaxOpsObj
        /\ heap' = r.h
        /\ ret' = OpsResult("nest", IF r.st = "ok" THEN r.v.v ELSE 0, Ref(n), r, <<>>)

\* dict.__eq__(items, other) as it would be were its NotImplemented final:
\* no reflected DotWiz.__eq__, a dict never equals a DotWiz
dict_eq_NoReflected(h, items, other) ==
    IF KindOf(h, other) = "dict" THEN ItemsEq(h, items, ItemsOf(h, other))
    ELSE FALSE

\* dict.__eq__(items, other) and what Python does with its NotImplemented:
\* against a dict the entries are compared; against a DotWiz the reflected
\* DotWiz.__eq__(other, items) compares other.__dict__ with items; against
\* anything else the operands are compared by identity
dict_eq(h, items, other) ==
    IF KindOf(h, other) = "dict" THEN ItemsEq(h, items, ItemsOf(h, other))
    ELSE IF KindOf(h, other) = "DotWiz" THEN ItemsEq(h, ItemsOf(h, other), items)
    ELSE FALSE

\* dict.__ne__(items, other), with the reflected DotWiz.__ne__ likewise
dict_ne(h, items, other) ==
    IF KindOf(h, other) = "dict" THEN ~ItemsEq(h, items, ItemsOf(h, other))
    ELSE IF KindOf(h, other) = "DotWiz" THEN ~ItemsEq(h, ItemsOf(h, other), items)
    ELSE TRUE

\* DotWiz.__eq__(self, other): self.__dict__ == other
DotWiz_eq(h, self, other) == dict_eq(h, h[self].items, other)

\* DotWiz.__ne__(self, other): self.__dict__ != other
DotWiz_ne(h, self, other) == dict_ne(h, h[self].items, other)

\* x == y for two mappings: type(x).__eq__(x, y) first
OpEq(h, x, y) ==
    IF h[x].kind = "DotWiz" THEN DotWiz_eq(h, x, Ref(y)) ELSE dict_eq(h, h[x].items, Ref(y))

\* x != y for two mappings: type(x).__ne__(x, y) first
OpNe(h, x, y) ==
    IF h[x].kind = "DotWiz" THEN DotWiz_ne(h, x, Ref(y)) ELSE dict_ne(h, h[x].items, Ref(y))

\* x == y, one of the two a DotWiz
Eq(x, y) ==
    /\ "DotWiz" \in {heap[x].kind, heap[y].kind}
    /\ ret' = OpsResult("eq", x, Ref(y), Ok(heap, BoolV(OpEq(heap, x, y))), <<>>)
    /\ UNCHANGED heap

\* x != y, one of the two a DotWiz
Ne(x, y) ==
    /\ "DotWiz" \in {heap[x].kind, heap[y].kind}
    /\ ret' = OpsResult("ne", x, Ref(y), Ok(heap, BoolV(OpNe(heap, x, y))), <<>>)
    /\ UNCHANGED heap

\* DotWiz.setdefault(self, k, default): a stored value other than None is
\* returned; otherwise _resolve_value(default, DotWiz, check_lists) is
\* called with three positional arguments, and it takes two
setdefault(h, self, k, default) ==
    LET result == DictGet(h[self].items, k, NoneV)
    IN  IF result # NoneV THEN Ok(h, result) ELSE Raise(h, "TypeError")

\* d.setdefault(key, default)
SetDefault(self, key, default) ==
    LET r == setdefault(heap, self, key, default)
    IN  /\ heap' = r.h
        /\ ret' = [seq |-> <<>>] @@ Result("setdefault", self, key, default, 0, 0,
                                           HasKey(heap[self].items, key), r)

NextOps ==
    \/ \E self \in Addrs(heap, "DotWiz"), key \in {"a", "b"}, default \in Defaults :
          SetDefault(self, key, default)
    \/ \E m \in Addrs(heap, "dict") : OpsConstruct(m)
    \/ \E self \in Addrs(heap, "DotWiz"), other \in Mappings(heap) : Or(self, other)
    \/ \E self \in Addrs(heap, "DotWiz"), other \in Mappings(heap) : IOr(self, other)
    \/ \E self \in Addrs(heap, "DotWiz") : Iter(self)
    \/ \E self \in Addrs(heap, "DotWiz") : Reversed(self)

SpecOps == InitOps /\ [][NextOps]_vars

\* the largest number of objects on the heap while mappings are compared
MaxEqObj == 6

\* the caller wraps and nests its dicts and compares the mappings it holds
EqConstruct(m) == OpsConstruct(m) /\ Len(heap') <= MaxEqObj

EqNest(n) == OpsNest(n) /\ Len(heap') <= MaxEqObj

NextEq ==
    \/ \E m \in Addrs(heap, "dict") : EqConstruct(m)
    \/ \E n \in Addrs(heap, "DotWiz") : EqNest(n)
    \/ \E x, y \in Mappings(heap) : Eq(x, y)
    \/ \E x, y \in Mappings(heap) : Ne(x, y)

SpecEq == InitOps /\ [][NextEq]_vars


(***************************************************************************)
(* JSON.  A str is a heap object whose entries are the tokens of the text  *)
(* (the token is the entry's key).  A file the caller names is a sequence  *)
(* of lines on disk; an open file and a generator are heap objects.        *)
(***************************************************************************)
\* the largest number of objects on the heap of this part
MaxJsonObj == 6

\* the text of the ints of the model
IntText(n) == CASE n = 0 -> "0" [] n = 1 -> "1" [] n = 2 -> "2" [] n = 3 -> "3"
                [] OTHER -> "9"

\* a str object with the tokens toks
Str(toks) == Obj("str", [i \in DOMAIN toks |-> E(toks[i], NoneV)])

RECURSIVE json_dumps(_, _, _)
RECURSIVE DumpsEach(_, _, _, _)

\* the tokens of the members of an object or the elements of an array
DumpsEach(h, rest, encoder, mapping) ==
    IF rest = <<>> THEN [st |-> "ok", exc |-> "", toks |-> <<>>]
    ELSE
      LET v == json_dumps(h, Head(rest).v, encoder)
          more == DumpsEach(h, Tail(rest), encoder, mapping)
      IN  IF v.st = "raise" THEN v
          ELSE IF more.st = "raise" THEN more
          ELSE [st |-> "ok", exc |-> "",
                toks |-> (IF mapping THEN <<Head(rest).k, ":">> ELSE <<>>) \o v.toks
                         \o (IF Tail(rest) = <<>> THEN <<>> ELSE <<",">>) \o more.toks]

\* json.dumps(v, cls=DotWizEncoder) when encoder, json.dumps(v) otherwise:
\* DotWizEncoder.default(o) encodes an object with a __dict__ as that dict
json_dumps(h, v, encoder) ==
    LET kind == KindOf(h, v)
        one(tok) == [st |-> "ok", exc |-> "", toks |-> <<tok>>]
    IN  CASE kind = "none" -> one("null")
          [] kind = "int" -> one(IntText(v.v))
          [] kind = "bool" -> one(IF v.v = 1 THEN "true" ELSE "false")
          [] kind = "dict" \/ (kind = "DotWiz" /\ encoder) ->
                LET r == DumpsEach(h, ItemsOf(h, v), encoder, TRUE)
                IN  IF r.st = "raise" THEN r
                    ELSE [st |-> "ok", exc |-> "", toks |-> <<"{">> \o r.toks \o <<"}">>]
          [] kind \in {"list", "tuple"} ->
                LET r == DumpsEach(h, ItemsOf(h, v), encoder, FALSE)
                IN  IF r.st = "raise" THEN r
                    ELSE [st |-> "ok", exc |-> "", toks |-> <<"[">> \o r.toks \o <<"]">>]
          [] OTHER -> [st |-> "raise", exc |-> "TypeError", toks |-> <<>>]

RECURSIVE StripEach(_, _, _)

\* one entry of the comprehension of to_json, its value r already converted
StripPut(h, rest, acc, r) ==
    IF r.st = "raise"
    THEN [st |-> "raise", exc |-> r.exc, h |-> h, v |-> NoneV, items |-> acc]
    ELSE StripEach(r.h, Tail(rest), Put(acc, StripUnderscores(Head(rest).k), r.v))

\* {k.strip("_"): DotWiz.to_dict(v, False) for k, v in o.__dict__.items()},
\* the comprehension of to_json, entry by entry into acc
StripEach(h, rest, acc) ==
    IF rest = <<>> THEN [st |-> "ok", exc |-> "", h |-> h, v |-> NoneV, items |-> acc]
    ELSE StripPut(h, rest, acc, to_dict(h, Head(rest).v, FALSE))

\* the end of to_json: return json.dumps(__initial_dict, cls=cls), a new str
ToJsonText(h, text) ==
    IF text.st = "raise" THEN Raise(h, text.exc)
    ELSE Ok(Append(h, Str(text.toks)), Ref(Len(h) + 1))

\* the middle of to_json: (first, second)[keep_snakes] picks second, the
\* value of o.__dict___, when keep_snakes, and the comprehension otherwise;
\* cls is DotWizEncoder when keep_snakes
ToJsonPick(h, keep_snakes, tmp, second) ==
    IF second.st = "raise" THEN Raise(h, second.exc)
    ELSE ToJsonText(h, json_dumps(tmp, IF keep_snakes THEN second.v ELSE Ref(Len(tmp)),
                                  keep_snakes))

\* the start of to_json, the comprehension `first` evaluated: then o.__dict___
\* (three trailing underscores), which no lookup finds but DotWiz.__getattr__
ToJsonTuple(h, o, keep_snakes, first) ==
    IF first.st = "raise" THEN Raise(h, first.exc)
    ELSE ToJsonPick(h, keep_snakes, Append(first.h, Obj("dict", first.items)),
                    getattr_hook(first.h, o, "__dict___"))

\* DotWiz.to_json(o, keep_snakes=keep_snakes) without a file.  Both elements
\* of the tuple are evaluated before one is picked.  The returned str is the
\* one new object
to_json(h, o, keep_snakes) ==
    ToJsonTuple(h, o, keep_snakes, StripEach(h, h[o].items, <<>>))

\* the files on disk, line by line: a data line holds one JSON object, "#"
\* is a comment line, "" is a blank line
Files == << <<"data", "#", "data">>,
            <<"", "data", "#">> >>

\* open(file): a file object at its first line
OpenFile(path) ==
    Obj("file", <<E("path", IntV(path)), E("pos", IntV(0)), E("closed", BoolV(FALSE))>>)

\* f.close(), also what leaving `with open(...) as f` does
Close(h, f) == [h EXCEPT ![f].items = Put(@, "closed", BoolV(TRUE))]

\* the generator expression of from_json over the file object f, not started;
\* `json` is the parameter of from_json it closes over, n counts its yields
Generator(f, json) ==
    Obj("generator", <<E("f", Ref(f)), E("json", json), E("n", IntV(0)),
                       E("done", BoolV(FALSE))>>)

\* json.loads(text, ...) inside from_json, where the name `json` is the
\* parameter (None or a str), not the module: neither has an attribute loads
json_loads(h, json) == Raise(h, "AttributeError")

\* DotWiz.from_json(json, file, multiline): json is None or a str, file is 0
\* (no file) or the number of a file on disk
from_json(h, json, file, multiline) ==
    IF ~Truthy(h, json) /\ file = 0 THEN Raise(h, "ValueError")
    ELSE IF file # 0
    THEN LET f == Len(h) + 1
             opened == Append(h, OpenFile(file))
         IN  IF multiline
             \* the generator is made, not run; the with block closes f; return
             THEN Ok(Close(Append(opened, Generator(f, json)), f), Ref(f + 1))
             \* json.load(f, ...): `json` has no attribute load; the with block
             \* closes f, which nothing refers to any more
             ELSE Raise(h, "AttributeError")
    ELSE json_loads(h, json)

RECURSIVE generator_next(_, _)
\* next(gen): run the generator expression up to its next yield
\*   for line in f: if line.strip() and not line.strip().startswith("#"):
\*       yield json.loads(line.strip(), ...)
\* An exception and the end of the file finish the generator
generator_next(h, gen) ==
    LET g == h[gen].items
        f == Lookup(g, "f").v
        file == h[f].items
        lines == Files[Lookup(file, "path").v]
        pos == Lookup(file, "pos").v
        finished == [h EXCEPT ![gen].items = Put(@, "done", BoolV(TRUE))]
    IN  IF Lookup(g, "done") = BoolV(TRUE) THEN Raise(h, "StopIteration")
        ELSE IF Lookup(file, "closed") = BoolV(TRUE) THEN Raise(finished, "ValueError")
        ELSE IF pos >= Len(lines) THEN Raise(finished, "StopIteration")
        ELSE LET read == [h EXCEPT ![f].items = Put(@, "pos", IntV(pos + 1))]
             IN  IF lines[pos + 1] # "data" THEN generator_next(read, gen)
                 ELSE LET r == json_loads(read, Lookup(g, "json"))
                      IN  IF r.st = "raise"
                          THEN Raise([r.h EXCEPT ![gen].items = Put(@, "done", BoolV(TRUE))],
                                     r.exc)
                          ELSE Ok([r.h EXCEPT ![gen].items =
                                      Put(@, "n", IntV(Lookup(g, "n").v + 1))], r.v)

\* the plain dicts the caller owns: {"a": 1} and {"a": {"a": 1}, "b": 2}
JsonLiterals == << Obj("dict", <<E("a", IntV(1))>>),
                   Obj("dict", <<E("a", Ref(1)), E("b", IntV(2))>>),
                   Obj("dict", <<>>) >>

InitJson ==
    /\ heap = JsonLiterals
    /\ ret = Result("init", 0, "", NoneV, 0, 0, FALSE, Ok(JsonLiterals, NoneV))

\* d = DotWiz(m) for a plain dict m of the caller
JsonConstruct(m) ==
    LET r == NewDotWiz(heap, FALSE, heap[m].items, TRUE, TRUE, <<>>)
    IN  /\ Len(r.h) <= MaxJsonObj
        /\ heap' = r.h
        /\ ret' = Result("construct", IF r.st = "ok" THEN r.v.v ELSE 0, "", Ref(m), 0, 0,
                         FALSE, r)

\* text = DotWiz.to_json(d, keep_snakes=keep_snakes)
ToJson(self, keep_snakes) ==
    LET r == to_json(heap, self, keep_snakes)
    IN  /\ Len(r.h) <= MaxJsonObj
        /\ heap' = r.h
        /\ ret' = Result("to_json", self, "", BoolV(keep_snakes), 0, 0, FALSE, r)

\* DotWiz.from_json(text), DotWiz.from_json() when json is None
FromJson(json) ==
    LET r == from_json(heap, json, 0, FALSE)
    IN  /\ Len(r.h) <= MaxJsonObj
        /\ heap' = r.h
        /\ ret' = Result("from_json", 0, "", json, 0, 0, FALSE, r)

\* DotWiz.from_json(DotWiz.to_json(d)) == d; the temporaries of the
\* expression are dropped
JsonRoundTrip(self) ==
    LET r1 == to_json(heap, self, TRUE)
        r2 == IF r1.st = "raise" THEN r1 ELSE from_json(r1.h, r1.v, 0, FALSE)
        r3 == IF r2.st = "raise" THEN Raise(heap, r2.exc)
              ELSE Ok(heap, BoolV(PyEq(r2.h, r2.v, Ref(self))))
    IN  /\ ret' = Result("json_roundtrip", self, "", NoneV, 0, 0, FALSE, r3)
        /\ UNCHANGED heap

\* gen = DotWiz.from_json(file=path, multiline=multiline)
FromJsonFile(path, multiline) ==
    LET r == from_json(heap, NoneV, path, multiline)
    IN  /\ Len(r.h) <= MaxJsonObj
        /\ heap' = r.h
        /\ ret' = Result("from_json_file", IF r.st = "ok" THEN r.v.v ELSE 0, "", NoneV,
                         path, IF multiline THEN 1 ELSE 0, FALSE, r)

\* next(gen), as `for d in gen` and list(gen) do
NextItem(gen) ==
    LET r == generator_next(heap, gen)
    IN  /\ heap' = r.h
        /\ ret' = Result("next", gen, "", NoneV, Lookup(heap[gen].items, "n").v, 0,
                         Lookup(heap[gen].items, "done") = BoolV(TRUE), r)

NextJson ==
    \/ \E m \in Addrs(heap, "dict") : JsonConstruct(m)
    \/ \E self \in Addrs(heap, "DotWiz"), keep_snakes \in BOOLEAN : ToJson(self, keep_snakes)
    \/ \E json \in {NoneV} \cup {Ref(a) : a \in Addrs(heap, "str")} : FromJson(json)
    \/ \E self \in Addrs(heap, "DotWiz") : JsonRoundTrip(self)
    \/ \E path \in DOMAIN Files, multiline \in BOOLEAN : FromJsonFile(path, multiline)
    \/ \E gen \in Addrs(heap, "generator") : NextItem(gen)

SpecJson == InitJson /\ [][NextJson]_vars


(***************************************************************************)
(* Sharing: the caller stores one DotWiz under several parents, at         *)
(* construction or by a write, changes it, and reads it back.              *)
(***************************************************************************)
\* the plain dict the caller owns: {"v": 1}
ShareLiterals == << Obj("dict", <<E("v", IntV(1))>>) >>

\* the keys the caller uses: "k" holds the shared value, "v" is inside it
ShareKeys == {"k", "v"}

InitShare ==
    /\ heap = ShareLiterals
    /\ ret = OpsResult("init", 0, NoneV, Ok(ShareLiterals, NoneV), <<>>)

\* p[key] = value, p.key = value: the caller stores a DotWiz it holds under
\* "k", and changes "v" to 2
ShareWrite(self, key, value) ==
    LET r == setitem_impl(heap, self, key, value)
    IN  /\ Len(r.h) <= MaxOpsObj
        /\ ~Within(heap, value, self)
        /\ heap' = r.h
        /\ ret' = [seq |-> <<>>] @@ Result("write", self, key, value, 0, 0,
                                           HasKey(heap[self].items, key), r)

\* p.key
ShareRead(self, key) ==
    /\ ret' = [seq |-> <<>>] @@ Result("getattr", self, key, NoneV, 0, 0,
                                       HasKey(heap[self].items, key),
                                       DotWiz_getattr(heap, self, key))
    /\ UNCHANGED heap

\* the largest number of wrappers the caller makes
MaxShareWiz == 3

ShareConstruct(m) == OpsConstruct(m) /\ Cardinality(Addrs(heap', "DotWiz")) <= MaxShareWiz

ShareNest(n) == OpsNest(n) /\ Cardinality(Addrs(heap', "DotWiz")) <= MaxShareWiz

NextShare ==
    \/ \E m \in Addrs(heap, "dict") : ShareConstruct(m)
    \/ \E n \in Addrs(heap, "DotWiz") : ShareNest(n)
    \/ \E self \in Addrs(heap, "DotWiz"), n \in Addrs(heap, "DotWiz") :
          ShareWrite(self, "k", Ref(n))
    \/ \E self \in Addrs(heap, "DotWiz") : ShareWrite(self, "v", IntV(2))
    \/ \E self \in Addrs(heap, "DotWiz"), key \in ShareKeys : ShareRead(self, key)

SpecShare == InitShare /\ [][NextShare]_vars


(***************************************************************************)
(* The claims.                                                             *)
(***************************************************************************)
\* the backing store of the DotWiz the last operation ran on
Store == heap[ret.obj].items

RECURSIVE NoKindIn(_, _, _)
\* no object of the kind is the value v or inside it, at any depth
NoKindIn(h, v, kind) ==
    \/ ~IsRef(v)
    \/ /\ KindOf(h, v) # kind
       /\ \A i \in DOMAIN ItemsOf(h, v) : NoKindIn(h, ItemsOf(h, v)[i].v, kind)

\* C1: for every plain mapping m, to_plain(DotMapping(m)) evaluates and
\* compares equal to m (same keys, equal values)
C1_RoundTripIdentity ==
    ret.op = "roundtrip" => ret.st = "ok" /\ ret.val = BoolV(TRUE)

\* C2: to_plain(o) of a DotMapping o returns a new plain mapping, neither o
\* itself nor a DotMapping, with the keys of o and with no DotMapping left
\* at any depth
C2_ToPlainReturnsNewPlainMapping ==
    ret.op = "to_dict" =>
        /\ ret.st = "ok"
        /\ IsRef(ret.val)
        /\ ret.val.v # ret.obj
        /\ KindOf(heap, ret.val) = "dict"
        /\ KeySet(ItemsOf(heap, ret.val)) = KeySet(Store)
        /\ NoKindIn(heap, ret.val, "DotWiz")

\* C3: DotMapping(input_mapping, **kwargs) with the default flags succeeds
\* (also with keyword entries alone) and its store holds exactly the keys of
\* input_mapping and of kwargs, each keyword key with the keyword's value
C3_ConstructMergesKwargs ==
    ret.op = "construct" =>
        LET input == IF ret.n = 0 THEN <<>> ELSE InputDicts[ret.n]
            kwargs == KwargDicts[ret.m]
        IN  /\ ret.st = "ok"
            /\ KeySet(Store) = KeySet(input) \cup KeySet(kwargs)
            /\ \A k \in KeySet(kwargs) : PyEq(heap, Lookup(Store, k), Lookup(kwargs, k))

\* C4: after an eager construction no raw mapping is left in the store, at
\* any depth, also not as an element of a list
C4_EagerLeavesNoRawMapping ==
    ret.op = "construct" /\ ret.st = "ok" => NoKindIn(heap, Ref(ret.obj), "dict")

PlusOwnNames == {"dict", "preprocess"} \cup PlusMethodNames

C6_AttrAndItemReadAgree ==
    \A d \in Addrs(heap, "DotWiz") : \A k \in KeySet(heap[d].items) :
        LET byattr == DotWiz_getattr(heap, d, k)
            byitem == getitem(heap, d, k)
        IN  /\ byattr.st = "ok" /\ byitem.st = "ok"
            /\ byattr.v = byitem.v
            /\ byattr.v = Lookup(heap[d].items, k)

\* C7: the attribute read of a key that is not in the store raises
\* AttributeError
C7_MissingAttrRaises ==
    ret.op = "getattr" /\ ~ret.had => ret.st = "raise" /\ ret.exc = "AttributeError"

\* C8: get(key, default) and d[key] of a key that is not in the store return
\* the default (None for d[key]) without raising, and change nothing
C8_MissingKeyReadsDefault ==
    [][ /\ (ret'.op = "get" /\ ~ret'.had) =>
              ret'.st = "ok" /\ ret'.val = ret'.arg /\ heap' = heap
        /\ (ret'.op = "getitem" /\ ~ret'.had) =>
              ret'.st = "ok" /\ ret'.val = NoneV /\ heap' = heap ]_vars

\* C9: del d[key] of a key that is not in the store raises KeyError and
\* changes nothing; of a key in the store it removes that key and no other
C9_DeleteRemovesOnlyTheKey ==
    [][ ret'.op = "delitem" =>
          IF ret'.had
          THEN /\ ret'.st = "ok"
               /\ heap' = [heap EXCEPT ![ret'.obj].items = Remove(@, ret'.key)]
          ELSE /\ ret'.st = "raise" /\ ret'.exc = "KeyError"
               /\ heap' = heap ]_vars

\* C10: `key in d` is true exactly when key is a key of the store, and
\* evaluating it changes nothing
C10_ContainsIffStored ==
    [][ ret'.op = "contains" =>
          ret'.st = "ok" /\ ret'.val = BoolV(ret'.had) /\ heap' = heap ]_vars

\* C11: a | b, for b a plain mapping or a DotMapping, returns a new DotMapping
\* whose store has the entries of a overlaid with the entries of b (the
\* value of b on a key of both), and leaves the store of a as it was
C11_MergeIsUnionRightWins ==
    [][ ret'.op = "or" =>
          /\ ret'.st = "ok"
          /\ KindOf(heap', ret'.val) = "DotWiz"
          /\ ret'.val.v \notin DOMAIN heap
          /\ ItemsOf(heap', ret'.val)
                = DictUpdate(heap[ret'.obj].items, ItemsOf(heap, ret'.arg))
          /\ heap'[ret'.obj] = heap[ret'.obj] ]_vars

\* C12: a |= b, for b a plain mapping or a DotMapping, overlays the entries
\* of b onto the store of a in place (the value of b on a key of both, the
\* other keys of a kept) and returns the instance a itself
C12_UpdateWithOverlaysInPlace ==
    [][ ret'.op = "ior" =>
          /\ ret'.st = "ok"
          /\ ret'.val = Ref(ret'.obj)
          /\ heap'[ret'.obj].items
                = DictUpdate(heap[ret'.obj].items, ItemsOf(heap, ret'.arg)) ]_vars

\* C13: iterating d yields the (key, value) pairs of the store in insertion
\* order, and reversed(d) yields those same pairs in the opposite order
C13_IterationYieldsPairs ==
    LET n == Len(Store)
    IN  /\ ret.op = "iter" =>
              ret.seq = [i \in 1..n |-> Pair(Store[i].k, Store[i].v)]
        /\ ret.op = "reversed" =>
              ret.seq = [i \in 1..n |-> Pair(Store[n + 1 - i].k, Store[n + 1 - i].v)]

RECURSIVE SameValue(_, _, _)
\* two values are equal: the same number, both None, two mappings (plain or
\* DotMapping) with the same key set and equal values under each key, or two
\* sequences of one type with equal elements
SameValue(h, x, y) ==
    LET kx == KindOf(h, x)
        ky == KindOf(h, y)
    IN  CASE {kx, ky} \subseteq {"int", "bool"} -> x.v = y.v
          [] kx = "none" /\ ky = "none" -> TRUE
          [] {kx, ky} \subseteq {"dict", "DotWiz"} ->
                /\ KeySet(ItemsOf(h, x)) = KeySet(ItemsOf(h, y))
                /\ \A k \in KeySet(ItemsOf(h, x)) :
                      SameValue(h, Lookup(ItemsOf(h, x), k), Lookup(ItemsOf(h, y), k))
          [] kx = ky /\ kx \in {"list", "tuple"} ->
                /\ Len(ItemsOf(h, x)) = Len(ItemsOf(h, y))
                /\ \A i \in DOMAIN ItemsOf(h, x) :
                      SameValue(h, ItemsOf(h, x)[i].v, ItemsOf(h, y)[i].v)
          [] OTHER -> FALSE

\* C14: d == other, for other a DotMapping or a plain mapping, is true
\* exactly when the two have the same key set and equal values under each
\* key; other == d gives the same verdict, and != gives the opposite one
C14_EqualityIsSymmetric ==
    LET same == SameValue(heap, Ref(ret.obj), ret.arg)
    IN  /\ ret.op = "eq" =>
              /\ ret.val = BoolV(same)
              /\ OpEq(heap, ret.arg.v, ret.obj) = same
        /\ ret.op = "ne" =>
              /\ ret.val = BoolV(~same)
              /\ OpNe(heap, ret.arg.v, ret.obj) = ~same

\* a wrapper that nests a wrapper has just been compared with the plain
\* mapping of the same content, the plain mapping on the left, and found
\* equal
C14_Witness ==
    /\ ret.op = "eq" /\ ret.val = BoolV(TRUE)
    /\ heap[ret.obj].kind = "dict" /\ KindOf(heap, ret.arg) = "DotWiz"
    /\ \E i \in DOMAIN ItemsOf(heap, ret.arg) :
          /\ KindOf(heap, ItemsOf(heap, ret.arg)[i].v) = "DotWiz"
          /\ KindOf(heap, Lookup(heap[ret.obj].items, ItemsOf(heap, ret.arg)[i].k)) = "dict"

\* C15: for a DotMapping d built from a mapping of JSON values,
\* from_json(to_json(d)) evaluates and compares equal to d
C15_JsonRoundTrip ==
    ret.op = "json_roundtrip" => ret.st = "ok" /\ ret.val = BoolV(TRUE)

\* the lines of a file that hold data
DataLines(path) == {i \in DOMAIN Files[path] : Files[path][i] = "data"}

\* C16: the sequence from_json returns for a file in multiline mode yields,
\* when the caller consumes it, one DotMapping per data line of the file and
\* then ends, and once it has ended the file is closed
C16_MultilineYieldsPerDataLine ==
    [][ \A gen \in Addrs(heap, "generator") :
          (ret'.op = "next" /\ ret'.obj = gen /\ ~ret'.had) =>
            LET f == Lookup(heap[gen].items, "f").v
                path == Lookup(heap[f].items, "path").v
            IN  IF ret'.n < Cardinality(DataLines(path))
                THEN ret'.st = "ok" /\ KindOf(heap', ret'.val) = "DotWiz"
                ELSE /\ ret'.st = "raise" /\ ret'.exc = "StopIteration"
                     /\ Lookup(heap'[f].items, "closed") = BoolV(TRUE) ]_vars

\* C17: a write to the reserved key "__dict__", by attribute or by item
\* assignment, does not put that name into the store as a regular key
C17_ReservedKeyNotStored ==
    ret.op = "setitem" /\ ret.key = "__dict__" /\ ~ret.had =>
        /\ ~HasKey(Store, "__dict__")
        /\ \A i \in DOMAIN Store : Store[i].k # "__dict__"

\* C18: after a write of a mapping, or of a list that holds mappings, the
\* value stored under the key holds no raw mapping at any depth: a mapping
\* is stored as a DotMapping
C18_WriteResolvesValue ==
    ret.op = "setitem" /\ ret.st = "ok" /\ IsRef(ret.arg) =>
        /\ KindOf(heap, ret.arg) = "dict" => KindOf(heap, Lookup(Store, ret.key)) = "DotWiz"
        /\ NoKindIn(heap, Lookup(Store, ret.key), "dict")

\* C19: when the caller stores a DotMapping n under a key of a parent, at
\* construction or by a write, the store of the parent holds that very
\* instance, and reading the key by attribute or by item returns it
C19_SharedInstanceIsAliased ==
    ret.op \in {"nest", "write"} /\ KindOf(heap, ret.arg) = "DotWiz" =>
        LET key == IF ret.op = "nest" THEN "k" ELSE ret.key
        IN  /\ ret.st = "ok"
            /\ Lookup(Store, key) = ret.arg
            /\ DotWiz_getattr(heap, ret.obj, key) = Ok(heap, ret.arg)
            /\ getitem(heap, ret.obj, key) = Ok(heap, ret.arg)

\* C20: setdefault(k, default) of a key that is not in the store stores the
\* default under k and returns it; of a key stored with a value other than
\* None it returns that value and changes nothing
C20_SetDefault ==
    [][ ret'.op = "setdefault" =>
          LET items == heap[ret'.obj].items
          IN  /\ ~ret'.had =>
                    /\ ret'.st = "ok" /\ ret'.val = ret'.arg
                    /\ heap' = [heap EXCEPT ![ret'.obj].items = Put(@, ret'.key, ret'.arg)]
              /\ (ret'.had /\ Lookup(items, ret'.key) # NoneV) =>
                    /\ ret'.st = "ok" /\ ret'.val = Lookup(items, ret'.key)
                    /\ heap' = heap ]_vars

====
